---------------------------- MODULE Spec2Model ----------------------------
(***************************************************************************)
(* Model of the RoadSense backend (src/backend/app/main.py): the severity  *)
(* classifier, the priority scorer, the reverse-geocoding adapter, the     *)
(* detection record store with its status lifecycle, and the DBSCAN        *)
(* clustering job.                                                         *)
(*                                                                         *)
(* Units.  Confidences are hundredths (0.7 is 70, 0.9 is 90).  Ages are    *)
(* tenths of a day.  Coordinates are multiples of 0.0001 degree, so the    *)
(* clustering radius eps = 0.0005 is 5 units.                              *)
(***************************************************************************)
EXTENDS Integers, Sequences, FiniteSets, TLC

VARIABLES
    cfg,        \* settings flags and client handles of the process (main.py:45, 55-59)
    records,    \* the Firestore collection: document id -> document
    blobs,      \* the Cloud Storage bucket: ids of the uploaded image objects
    runs,       \* per service instance: the run_clustering request in progress
    last,       \* the outcome of the last completed request
    fn,         \* the call of a pure helper, direct or made by the last request:
                \* its arguments and result
    now         \* the clock read by _now_utc

vars == <<cfg, records, blobs, runs, last, fn, now>>

\* Optional values: Python's None and a present value
None == << >>
Some(v) == <<v>>

Min(a, b) == IF a < b THEN a ELSE b
Max(a, b) == IF a > b THEN a ELSE b

----------------------------------------------------------------------------
(* Bounds of the model *)

MaxDetections == 5      \* numDetections ranges over 0..MaxDetections
MaxAgeTenths == 100     \* age_days ranges over 0..MaxAgeTenths tenths of a day

----------------------------------------------------------------------------
(* Configuration *)

\* The flags and handles the handlers read: settings.ENABLE_* and the
\* process-wide clients.  gcp stands for "_storage_client and _firestore_client
\* are set and GCS_BUCKET is non-empty", what _ensure_gcp tests.
Config(gcp, model, scoring, geocoding, gmaps, clustering) ==
    [gcp |-> gcp, model |-> model, priority_scoring |-> scoring,
     reverse_geocoding |-> geocoding, gmaps_client |-> gmaps,
     clustering |-> clustering]

AllOn == Config(TRUE, TRUE, TRUE, TRUE, TRUE, TRUE)

----------------------------------------------------------------------------
(* Severity classifier and priority scorer *)

Severities == {"low", "medium", "high"}
RoadTypes == {"residential", "arterial", "highway"}

\* _calculate_severity with "> 0.9" written ">= 0.9"
_calculate_severity_gt_as_ge(num_detections, max_confidence) ==
    IF ~cfg.priority_scoring THEN "low"
    ELSE IF num_detections >= 3 \/ max_confidence >= 90 THEN "high"
    ELSE IF num_detections = 2 \/ (70 <= max_confidence /\ max_confidence <= 90)
         THEN "medium"
    ELSE "low"

\* main.py:253-268, with max_confidence in hundredths
_calculate_severity(num_detections, max_confidence) ==
    IF ~cfg.priority_scoring THEN "low"
    ELSE IF num_detections >= 3 \/ max_confidence > 90 THEN "high"
    ELSE IF num_detections = 2 \/ (70 <= max_confidence /\ max_confidence <= 90)
         THEN "medium"
    ELSE "low"

\* migrations/001_add_priority_fields.py:24-31: the same table, no feature flag
calculate_severity(num_detections, max_confidence) ==
    IF num_detections >= 3 \/ max_confidence > 90 THEN "high"
    ELSE IF num_detections = 2 \/ (70 <= max_confidence /\ max_confidence <= 90)
         THEN "medium"
    ELSE "low"

\* dict.get(key, default) on the two score tables of main.py:288-293
severity_scores(severity) ==
    CASE severity = "low" -> 25
      [] severity = "medium" -> 50
      [] severity = "high" -> 75
      [] OTHER -> 25

road_type_scores(road_type) ==
    CASE road_type = "residential" -> 0
      [] road_type = "arterial" -> 15
      [] road_type = "highway" -> 25
      [] OTHER -> 0

\* _calculate_priority_score without the cap of 20 on the detection bonus
_calculate_priority_score_no_cap(severity, road_type, num_detections, age_tenths) ==
    IF ~cfg.priority_scoring THEN 0
    ELSE LET score == severity_scores(severity) + road_type_scores(road_type)
                      + num_detections * 5
                      + Min(age_tenths \div 2, 20)
         IN  Min(Max(score, 0), 100)

\* main.py:271-302; int(age_days * 5) of an age of t tenths is t \div 2
_calculate_priority_score(severity, road_type, num_detections, age_tenths) ==
    IF ~cfg.priority_scoring THEN 0
    ELSE LET score == severity_scores(severity) + road_type_scores(road_type)
                      + Min(num_detections * 5, 20)
                      + Min(age_tenths \div 2, 20)
         IN  Min(Max(score, 0), 100)

NoCall == [op |-> "none", called |-> FALSE]

----------------------------------------------------------------------------
(* Reverse geocoding (main.py:305-349) *)

\* Text that the code inspects character by character is a sequence of
\* one-character strings.
UpperCase == <<"A", "B", "C", "D", "E", "F", "G", "H", "I", "J", "K", "L", "M",
               "N", "O", "P", "Q", "R", "S", "T", "U", "V", "W", "X", "Y", "Z">>
LowerCase == <<"a", "b", "c", "d", "e", "f", "g", "h", "i", "j", "k", "l", "m",
               "n", "o", "p", "q", "r", "s", "t", "u", "v", "w", "x", "y", "z">>

\* str.lower()
lower(s) ==
    [i \in 1..Len(s) |->
        IF \E k \in 1..26 : UpperCase[k] = s[i]
        THEN LowerCase[CHOOSE k \in 1..26 : UpperCase[k] = s[i]]
        ELSE s[i]]

\* x in s, for strings
contains(s, x) ==
    \E i \in 0..(Len(s) - Len(x)) : \A j \in 1..Len(x) : s[i + j] = x[j]

HighwayWords == {<<"h", "i", "g", "h", "w", "a", "y">>, <<"h", "w", "y">>,
                 <<"f", "r", "e", "e", "w", "a", "y">>}
ArterialWords == {<<"a", "v", "e", "n", "u", "e">>,
                  <<"b", "o", "u", "l", "e", "v", "a", "r", "d">>,
                  <<"b", "l", "v", "d">>, <<"p", "a", "r", "k", "w", "a", "y">>}

\* main.py:334-340
infer_road_type_arterial_first(street_name) ==
    IF street_name = None \/ street_name[1] = << >> THEN "residential"
    ELSE LET street_lower == lower(street_name[1])
         IN  IF \E x \in ArterialWords : contains(street_lower, x) THEN "arterial"
             ELSE IF \E x \in HighwayWords : contains(street_lower, x) THEN "highway"
             ELSE "residential"

infer_road_type(street_name) ==
    IF street_name = None \/ street_name[1] = << >> THEN "residential"
    ELSE LET street_lower == lower(street_name[1])
         IN  IF \E x \in HighwayWords : contains(street_lower, x) THEN "highway"
             ELSE IF \E x \in ArterialWords : contains(street_lower, x) THEN "arterial"
             ELSE "residential"

\* What the Google Maps client does on one reverse_geocode call: it raises,
\* returns no results, or returns results whose first entry carries the
\* address components (types, long_name).
Component(type, long_name) == [types |-> <<type>>, long_name |-> long_name]

MainSt == <<"M", "a", "i", "n", " ", "S", "t">>
Hwy10 == <<"H", "W", "Y", " ", "1", "0">>
QueenBlvd == <<"Q", "u", "e", "e", "n", " ", "B", "l", "v", "d">>

GeoRaise == [kind |-> "raise"]
GeoEmpty == [kind |-> "empty"]
GeoResult(components) == [kind |-> "results", address_components |-> components]

GeoResponses ==
    {GeoRaise, GeoEmpty,
     \* a component without types: c["types"][0] raises IndexError
     GeoResult(<<[types |-> << >>, long_name |-> MainSt]>>),
     GeoResult(<<Component("route", MainSt), Component("neighborhood", "Downtown")>>),
     GeoResult(<<Component("route", Hwy10), Component("locality", "Brampton")>>),
     GeoResult(<<Component("route", QueenBlvd), Component("sublocality", "Bramalea"),
                 Component("locality", "Brampton")>>),
     GeoResult(<<Component("locality", "Brampton")>>)}

\* {c["types"][0]: c["long_name"] for c in ...}.get(key): the last component
\* whose first type is key, or None
component(comps, key) ==
    LET hits == {i \in 1..Len(comps) : comps[i].types[1] = key}
    IN  IF hits = {} THEN None
        ELSE Some(comps[CHOOSE i \in hits : \A j \in hits : j <= i].long_name)

\* a or b, for optional strings
or_else(a, b) == IF a # None /\ a[1] # "" THEN a ELSE b

GeoDefaults == [street_name |-> None, area |-> None, road_type |-> "residential"]

\* _reverse_geocode with the except clause returning what was extracted so far
_reverse_geocode_ignores_flag(lat, lng, resp) ==
    IF resp.kind = "raise" THEN GeoDefaults
    ELSE IF resp.kind = "empty" THEN GeoDefaults
    ELSE LET comps == resp.address_components
         IN  IF \E i \in 1..Len(comps) : comps[i].types = << >> THEN GeoDefaults
             ELSE LET street_name == component(comps, "route")
                      area == or_else(component(comps, "neighborhood"),
                              or_else(component(comps, "sublocality"),
                              or_else(component(comps, "locality"), None)))
                  IN  [street_name |-> street_name, area |-> area,
                       road_type |-> infer_road_type(street_name)]

\* main.py:305-349; resp is the behaviour of _gmaps_client.reverse_geocode
_reverse_geocode(lat, lng, resp) ==
    IF ~cfg.reverse_geocoding \/ ~cfg.gmaps_client THEN GeoDefaults
    ELSE IF resp.kind = "raise" THEN GeoDefaults
    ELSE IF resp.kind = "empty" THEN GeoDefaults
    ELSE LET comps == resp.address_components
         IN  IF \E i \in 1..Len(comps) : comps[i].types = << >> THEN GeoDefaults
             ELSE LET street_name == component(comps, "route")
                      area == or_else(component(comps, "neighborhood"),
                              or_else(component(comps, "sublocality"),
                              or_else(component(comps, "locality"), None)))
                  IN  [street_name |-> street_name, area |-> area,
                       road_type |-> infer_road_type(street_name)]

----------------------------------------------------------------------------
(* The detection store and the request handlers *)

DATA_RETENTION_DAYS == 90       \* config.py:44; the clock counts days
LAT_MAX == 900000               \* models.py:9, 90 degrees
LNG_MAX == 1800000              \* models.py:10, 180 degrees

valid_statuses == {"reported", "verified", "scheduled", "repaired"}

\* A served request: the handler, the HTTP status code of its answer, the
\* document id it was about, the store calls it made, in order, and the
\* target status it asked for (update-status only).
Response(op, code, id, store_ops, status) ==
    [op |-> op, code |-> code, id |-> id, store_ops |-> store_ops, status |-> status]

\* _ensure_gcp that never raises
ensure_gcp_passes == FALSE

\* _ensure_gcp, main.py:158-169
ensure_gcp_fails == ~cfg.gcp

\* GeoPoint's field constraints, models.py:8-11
valid_geopoint(lat, lng) ==
    /\ -LAT_MAX <= lat /\ lat <= LAT_MAX
    /\ -LNG_MAX <= lng /\ lng <= LNG_MAX

\* main.py:463-468
repair_urgency(severity) ==
    IF severity = "high" THEN "emergency"
    ELSE IF severity = "medium" THEN "urgent"
    ELSE "routine"

\* create_detection with the geocoder called when either coordinate is given
geocode_for_either(lat, lng, resp) ==
    IF lat # None \/ lng # None THEN _reverse_geocode(lat, lng, resp)
    ELSE GeoDefaults

\* main.py:450-453
geocode_for(lat, lng, resp) ==
    IF lat # None /\ lng # None THEN _reverse_geocode(lat[1], lng[1], resp)
    ELSE GeoDefaults

\* The DetectionRecord of main.py:470-496.  deviceId, capturedAt, alt, the
\* boxes and the model version are carried through untouched and left out.
DetectionRecord(uid, created, expires, lat, lng, det, severity, priority, geo) ==
    [id |-> uid,
     createdAt |-> created,
     expiresAt |-> expires,
     location |-> IF lat = None \/ lng = None THEN None
                  ELSE Some([lat |-> lat[1], lng |-> lng[1]]),
     storagePath |-> uid,
     numDetections |-> det.numDetections,
     severity |-> severity,
     priority_score |-> priority,
     area |-> geo.area,
     street_name |-> geo.street_name,
     status |-> "reported",
     repair_urgency |-> repair_urgency(severity),
     cluster_id |-> None,
     road_type |-> geo.road_type,
     updatedAt |-> None]

\* POST /v1/detections, main.py:396-502.
\*   uid    the uuid4 drawn for the request (used only if the request gets there)
\*   det    what inference returns: numDetections and the largest confidence
\*   resp   what the geocoding client does if it is called
\*   fault  the step that fails: "too_large", "inference", "upload", "persist"
\*   dt     how far the clock moves between the two _now_utc() of the record
create_detection(uid, lat, lng, det, resp, fault, dt) ==
  LET answer(code, id, store_ops) == Response("create_detection", code, id, store_ops, None)
  IN
    /\ fn' = IF ensure_gcp_fails \/ ~cfg.model \/ fault \in {"too_large", "inference", "upload"}
                 \/ lat = None \/ lng = None
             THEN NoCall
             ELSE [op |-> "_reverse_geocode", called |-> TRUE, resp |-> resp,
                   out |-> geocode_for(lat, lng, resp)]
    /\ cfg' = cfg
    /\ runs' = runs
    /\ IF ensure_gcp_fails THEN
           /\ last' = answer(500, None, << >>)
           /\ UNCHANGED <<records, blobs, now>>
       ELSE IF fault = "too_large" THEN
           /\ last' = answer(413, None, << >>)
           /\ UNCHANGED <<records, blobs, now>>
       ELSE IF ~cfg.model THEN
           /\ last' = answer(503, None, << >>)
           /\ UNCHANGED <<records, blobs, now>>
       ELSE IF fault = "inference" THEN
           /\ last' = answer(500, None, << >>)
           /\ UNCHANGED <<records, blobs, now>>
       ELSE IF fault = "upload" THEN
           /\ last' = answer(500, None, << >>)
           /\ UNCHANGED <<records, blobs, now>>
       ELSE
           LET severity == _calculate_severity(det.numDetections, det.maxConfidence)
               geo == geocode_for(lat, lng, resp)
               priority == _calculate_priority_score(
                               severity, geo.road_type, det.numDetections, 0)
               record == DetectionRecord(uid, now, now + dt + DATA_RETENTION_DAYS,
                                         lat, lng, det, severity, priority, geo)
           IN  /\ blobs' = blobs \cup {uid}
               /\ now' = now + dt
               /\ IF lat # None /\ lng # None /\ ~valid_geopoint(lat[1], lng[1]) THEN
                      \* DetectionRecord(...) raises a pydantic ValidationError
                      /\ last' = answer(500, Some(uid), << >>)
                      /\ records' = records
                  ELSE IF fault = "persist" THEN
                      /\ last' = answer(500, Some(uid), <<"set">>)
                      /\ records' = records
                  ELSE
                      /\ last' = answer(201, Some(uid), <<"set">>)
                      /\ records' = (uid :> record) @@ records

\* update_detection_status with a guard that keeps a repaired document repaired
update_detection_status_guarded(detection_id, status, fault) ==
    LET answer(code, store_ops) ==
            Response("update_detection_status", code, Some(detection_id), store_ops,
                     Some(status))
    IN  /\ UNCHANGED <<cfg, blobs, runs, now>>
        /\ fn' = NoCall
        /\ IF ensure_gcp_fails THEN
               last' = answer(500, << >>) /\ records' = records
           ELSE IF status \notin valid_statuses THEN
               last' = answer(400, << >>) /\ records' = records
           ELSE IF fault = "get" THEN
               last' = answer(500, <<"get">>) /\ records' = records
           ELSE IF detection_id \notin DOMAIN records THEN
               last' = answer(404, <<"get">>) /\ records' = records
           ELSE IF records[detection_id].status = "repaired" /\ status # "repaired" THEN
               last' = answer(400, <<"get">>) /\ records' = records
           ELSE IF fault = "update" THEN
               last' = answer(500, <<"get", "update">>) /\ records' = records
           ELSE
               /\ last' = answer(200, <<"get", "update">>)
               /\ records' = [records EXCEPT ![detection_id].status = status,
                                             ![detection_id].updatedAt = Some(now)]

\* update_detection_status without the check of the target status
update_detection_status_unvalidated(detection_id, status, fault) ==
    LET answer(code, store_ops) ==
            Response("update_detection_status", code, Some(detection_id), store_ops,
                     Some(status))
    IN  /\ UNCHANGED <<cfg, blobs, runs, now>>
        /\ fn' = NoCall
        /\ IF ensure_gcp_fails THEN
               last' = answer(500, << >>) /\ records' = records
           ELSE IF fault = "get" THEN
               last' = answer(500, <<"get">>) /\ records' = records
           ELSE IF detection_id \notin DOMAIN records THEN
               last' = answer(404, <<"get">>) /\ records' = records
           ELSE IF fault = "update" THEN
               last' = answer(500, <<"get", "update">>) /\ records' = records
           ELSE
               /\ last' = answer(200, <<"get", "update">>)
               /\ records' = [records EXCEPT ![detection_id].status = status,
                                             ![detection_id].updatedAt = Some(now)]

\* update_detection_status that also resets the urgency of the document
update_detection_status_rescoring(detection_id, status, fault) ==
    LET answer(code, store_ops) ==
            Response("update_detection_status", code, Some(detection_id), store_ops, Some(status))
    IN  /\ UNCHANGED <<cfg, blobs, runs, now>>
        /\ fn' = NoCall
        /\ IF ensure_gcp_fails \/ status \notin valid_statuses \/ fault # "none"
              \/ detection_id \notin DOMAIN records
           THEN last' = answer(500, << >>) /\ records' = records
           ELSE /\ last' = answer(200, <<"get", "update">>)
                /\ records' = [records EXCEPT ![detection_id].status = status,
                                              ![detection_id].updatedAt = Some(now),
                                              ![detection_id].repair_urgency = "routine"]

\* POST /v1/detections/{id}/update-status, main.py:787-818.
\*   fault  the store call that raises: "get" or "update"
update_detection_status(detection_id, status, fault) ==
    LET answer(code, store_ops) ==
            Response("update_detection_status", code, Some(detection_id), store_ops,
                     Some(status))
    IN  /\ UNCHANGED <<cfg, blobs, runs, now>>
        /\ fn' = NoCall
        /\ IF ensure_gcp_fails THEN
               last' = answer(500, << >>) /\ records' = records
           ELSE IF status \notin valid_statuses THEN
               last' = answer(400, << >>) /\ records' = records
           ELSE IF fault = "get" THEN
               last' = answer(500, <<"get">>) /\ records' = records
           ELSE IF detection_id \notin DOMAIN records THEN
               last' = answer(404, <<"get">>) /\ records' = records
           ELSE IF fault = "update" THEN
               last' = answer(500, <<"get", "update">>) /\ records' = records
           ELSE
               /\ last' = answer(200, <<"get", "update">>)
               /\ records' = [records EXCEPT ![detection_id].status = status,
                                             ![detection_id].updatedAt = Some(now)]

\* delete_detection that removes the document only once its blob is gone
delete_detection_blob_first(detection_id, fault) ==
    LET answer(code, store_ops) ==
            Response("delete_detection", code, Some(detection_id), store_ops, None)
    IN  /\ UNCHANGED <<cfg, runs, now>>
        /\ fn' = NoCall
        /\ IF detection_id \notin DOMAIN records \/ fault # "none" THEN
               /\ last' = answer(IF fault = "none" THEN 404 ELSE 500, <<"get">>)
               /\ UNCHANGED <<records, blobs>>
           ELSE
               /\ last' = answer(200, <<"get", "delete">>)
               /\ records' = [id \in DOMAIN records \ {detection_id} |-> records[id]]
               /\ blobs' = blobs \ {records[detection_id].storagePath}

\* DELETE /v1/detections/{detection_id}, main.py:505-537.
\*   fault  the call that raises: "get", "delete", "blob" (blob.delete()), or "none"
delete_detection(detection_id, fault) ==
    LET answer(code, store_ops) ==
            Response("delete_detection", code, Some(detection_id), store_ops, None)
    IN  /\ UNCHANGED <<cfg, runs, now>>
        /\ fn' = NoCall
        /\ IF ensure_gcp_fails THEN
               last' = answer(500, << >>) /\ UNCHANGED <<records, blobs>>
           ELSE IF fault = "get" THEN
               last' = answer(500, <<"get">>) /\ UNCHANGED <<records, blobs>>
           ELSE IF detection_id \notin DOMAIN records THEN
               last' = answer(404, <<"get">>) /\ UNCHANGED <<records, blobs>>
           ELSE IF fault = "delete" THEN
               last' = answer(500, <<"get", "delete">>) /\ UNCHANGED <<records, blobs>>
           ELSE
               /\ last' = answer(200, <<"get", "delete", "blob.delete">>)
               /\ records' = [id \in DOMAIN records \ {detection_id} |-> records[id]]
               /\ blobs' = IF fault = "blob" THEN blobs
                           ELSE blobs \ {records[detection_id].storagePath}

----------------------------------------------------------------------------
(* Clustering: sklearn's DBSCAN as _cluster_potholes calls it, main.py:352-393 *)

EPS == 5            \* eps=0.0005 degree, in units of 0.0001 degree (main.py:380)
MIN_SAMPLES == 2    \* min_samples=2 (main.py:380)

Point(lat, lng) == [lat |-> lat, lng |-> lng]

\* metric='euclidean' on the raw (lat, lng) pairs; a neighbour is a point at
\* distance <= eps
within_eps_strict(p, q) ==
    (p.lat - q.lat) * (p.lat - q.lat) + (p.lng - q.lng) * (p.lng - q.lng) < EPS * EPS

within_eps(p, q) ==
    (p.lat - q.lat) * (p.lat - q.lat) + (p.lng - q.lng) * (p.lng - q.lng) <= EPS * EPS

\* The eps-neighbourhood of sample i, itself included
neighbors(coords, i) == {j \in 1..Len(coords) : within_eps(coords[i], coords[j])}

\* core_samples: at least min_samples samples in the neighbourhood
is_core(coords, i) == Cardinality(neighbors(coords, i)) >= MIN_SAMPLES

\* dbscan_inner's depth-first growth from a seed: the samples it labels are
\* the seed and every still unlabelled neighbour of a core sample it labels.
RECURSIVE grow(_, _, _)
grow(coords, labels, members) ==
    LET more == {v \in 1..Len(coords) :
                    /\ labels[v] = -1
                    /\ \E u \in members : is_core(coords, u) /\ v \in neighbors(coords, u)}
    IN  IF more \subseteq members THEN members
        ELSE grow(coords, labels, members \cup more)

\* dbscan_inner's scan: each unlabelled core sample, in index order, seeds
\* the next label
RECURSIVE scan(_, _, _, _)
scan(coords, i, labels, label_num) ==
    IF i > Len(coords) THEN labels
    ELSE IF labels[i] # -1 \/ ~is_core(coords, i) THEN scan(coords, i + 1, labels, label_num)
    ELSE LET members == grow(coords, labels, {i})
         IN  scan(coords, i + 1,
                  [j \in 1..Len(coords) |-> IF j \in members THEN label_num ELSE labels[j]],
                  label_num + 1)

\* DBSCAN(...).fit(coords).labels_ : a label per sample, -1 for noise
dbscan_labels(coords) == scan(coords, 1, [j \in 1..Len(coords) |-> -1], 0)

\* f"cluster_{label}"
cluster_name(label) == "cluster_" \o ToString(label)

\* _cluster_potholes: detections is the list of documents; the result is the
\* dict detection_id -> cluster_id as the sequence of its items, in insertion
\* order
_cluster_potholes(detections) ==
    IF ~cfg.clustering \/ Len(detections) < 2 THEN << >>
    ELSE LET located == SelectSeq(detections, LAMBDA det : det.location # None)
             coords == [i \in 1..Len(located) |-> located[i].location[1]]
         IN  IF Len(coords) < 2 THEN << >>
             ELSE LET labels == dbscan_labels(coords)
                      idx == SelectSeq([i \in 1..Len(coords) |-> i],
                                       LAMBDA i : labels[i] # -1)
                  IN  [k \in 1..Len(idx) |->
                          [id |-> located[idx[k]].id,
                           cluster_id |-> cluster_name(labels[idx[k]])]]

----------------------------------------------------------------------------
(* The clustering job, main.py:821-876 *)

\* Firestore's batch limit of 500 operations (main.py:857-858), scaled down
\* so that a run over a handful of documents needs several batches
BATCH_LIMIT == 2

open_statuses == {"reported", "verified", "scheduled"}

\* The ids of a set in ascending order: the order a collection streams in
RECURSIVE ascending(_)
ascending(ids) ==
    IF ids = {} THEN << >>
    ELSE LET first == CHOOSE i \in ids : \A j \in ids : i <= j
         IN  <<first>> \o ascending(ids \ {first})

\* .where("status", "in", [...]).stream() with the filter dropped
stream_all(recs) ==
    LET ids == ascending(DOMAIN recs)
    IN  [k \in 1..Len(ids) |-> recs[ids[k]]]

\* The query of run_clustering restricted to documents that hold no cluster_id
stream_open_unassigned(recs) ==
    LET ids == ascending({id \in DOMAIN recs : /\ recs[id].status \in open_statuses
                                               /\ recs[id].cluster_id = None})
    IN  [k \in 1..Len(ids) |-> recs[ids[k]]]

\* .where("status", "in", ["reported", "verified", "scheduled"]).stream()
stream_open(recs) ==
    LET ids == ascending({id \in DOMAIN recs : recs[id].status \in open_statuses})
    IN  [k \in 1..Len(ids) |-> recs[ids[k]]]

\* The loop of main.py:852-864 that also commits the batch left open when
\* the loop ends on a full one
RECURSIVE batch_loop_closing(_, _, _, _)
batch_loop_closing(cluster_map, k, batch, committed) ==
    IF k > Len(cluster_map) THEN Append(committed, batch)
    ELSE LET filled == Append(batch, cluster_map[k])
         IN  IF k % BATCH_LIMIT = 0
             THEN batch_loop_closing(cluster_map, k + 1, << >>, Append(committed, filled))
             ELSE batch_loop_closing(cluster_map, k + 1, filled, committed)

\* The loop of main.py:852-864 from item k of cluster_map on, update_count
\* being k - 1: the item is added to the open batch, which is committed and
\* replaced by a new one when update_count reaches a multiple of the limit;
\* after the last item the open batch is committed if update_count is no
\* multiple of the limit.  The result is the batches in the order committed.
RECURSIVE batch_loop(_, _, _, _)
batch_loop(cluster_map, k, batch, committed) ==
    IF k > Len(cluster_map)
    THEN IF (k - 1) % BATCH_LIMIT # 0 THEN Append(committed, batch) ELSE committed
    ELSE LET filled == Append(batch, cluster_map[k])
         IN  IF k % BATCH_LIMIT = 0
             THEN batch_loop(cluster_map, k + 1, << >>, Append(committed, filled))
             ELSE batch_loop(cluster_map, k + 1, filled, committed)

\* The write batches of main.py:849-864
batches_of(cluster_map) == batch_loop(cluster_map, 1, << >>, << >>)

\* batch.commit() of updates fails as a whole if one of its documents is gone
commit_possible(recs, batch) == \A k \in 1..Len(batch) : batch[k].id \in DOMAIN recs

\* batch.commit() that also clears cluster_id on every document it does not name
commit_clearing(recs, batch) ==
    [id \in DOMAIN recs |->
        IF \E k \in 1..Len(batch) : batch[k].id = id
        THEN [recs[id] EXCEPT !.cluster_id =
                 Some(batch[CHOOSE k \in 1..Len(batch) : batch[k].id = id].cluster_id)]
        ELSE [recs[id] EXCEPT !.cluster_id = None]]

\* batch.commit(): update({"cluster_id": cluster_id}) on each document of the batch
commit(recs, batch) ==
    [id \in DOMAIN recs |->
        IF \E k \in 1..Len(batch) : batch[k].id = id
        THEN [recs[id] EXCEPT !.cluster_id =
                 Some(batch[CHOOSE k \in 1..Len(batch) : batch[k].id = id].cluster_id)]
        ELSE recs[id]]

\* The commits of main.py:852-864 from batch b on; batch number failing raises.
\* The result is the collection and the number of commits attempted.
RECURSIVE commit_from(_, _, _, _)
commit_from(recs, batches, b, failing) ==
    IF b > Len(batches) THEN [records |-> recs, commits |-> b - 1, ok |-> TRUE]
    ELSE IF b = failing \/ ~commit_possible(recs, batches[b])
         THEN [records |-> recs, commits |-> b, ok |-> FALSE]
    ELSE commit_from(commit(recs, batches[b]), batches, b + 1, failing)

\* run_clustering without the 503 for a disabled feature
run_clustering_no_flag_check(stream_fails, failing) ==
    LET answer(code, store_ops, cluster_map) ==
            Response("run_clustering", code, None, store_ops, None)
            @@ [cluster_map |-> cluster_map]
        cluster_map == _cluster_potholes(stream_open(records))
        done == commit_from(records, batches_of(cluster_map), 1, failing)
        store_ops == <<"stream">> \o [k \in 1..done.commits |-> "commit"]
    IN  /\ UNCHANGED <<cfg, blobs, runs, now>>
        /\ fn' = NoCall
        /\ IF ensure_gcp_fails THEN
               last' = answer(500, << >>, << >>) /\ records' = records
           ELSE IF stream_fails THEN
               last' = answer(500, <<"stream">>, << >>) /\ records' = records
           ELSE
               /\ last' = answer(IF done.ok THEN 200 ELSE 500, store_ops, cluster_map)
               /\ records' = done.records

\* POST /v1/analytics/run-clustering, main.py:821-876, served without
\* interleaving (an async handler that never awaits).
\*   stream_fails  the query raises
\*   failing       the number of the commit that raises (0: none)
run_clustering(stream_fails, failing) ==
    LET answer(code, store_ops, cluster_map) ==
            Response("run_clustering", code, None, store_ops, None)
            @@ [cluster_map |-> cluster_map]
        cluster_map == _cluster_potholes(stream_open(records))
        done == commit_from(records, batches_of(cluster_map), 1, failing)
        store_ops == <<"stream">> \o [k \in 1..done.commits |-> "commit"]
    IN  /\ UNCHANGED <<cfg, blobs, runs, now>>
        /\ fn' = NoCall
        /\ IF ~cfg.clustering THEN
               last' = answer(503, << >>, << >>) /\ records' = records
           ELSE IF ensure_gcp_fails THEN
               last' = answer(500, << >>, << >>) /\ records' = records
           ELSE IF stream_fails THEN
               last' = answer(500, <<"stream">>, << >>) /\ records' = records
           ELSE
               /\ last' = answer(IF done.ok THEN 200 ELSE 500, store_ops, cluster_map)
               /\ records' = done.records

\* A service instance's clustering request: not running, between two of its
\* store calls (writing), or answered (done with 200, failed with 500)
Idle == [pc |-> "idle", cluster_map |-> << >>, batch |-> 0]

\* run_clustering up to its first write, main.py:827-850, on instance i: the
\* query, _cluster_potholes on the documents read, and the answer at once
\* when there is nothing to write.
start_run(i, stream_fails) ==
    LET answer(code, store_ops, cluster_map) ==
            Response("run_clustering", code, None, store_ops, None)
            @@ [cluster_map |-> cluster_map]
        cluster_map == _cluster_potholes(stream_open(records))
        ended(pc) == [runs EXCEPT ![i] = [pc |-> pc, cluster_map |-> << >>, batch |-> 0]]
    IN  /\ runs[i].pc # "writing"
        /\ UNCHANGED <<cfg, blobs, records, now>>
        /\ fn' = NoCall
        /\ IF ~cfg.clustering THEN
               last' = answer(503, << >>, << >>) /\ runs' = ended("failed")
           ELSE IF ensure_gcp_fails THEN
               last' = answer(500, << >>, << >>) /\ runs' = ended("failed")
           ELSE IF stream_fails THEN
               last' = answer(500, <<"stream">>, << >>) /\ runs' = ended("failed")
           ELSE IF cluster_map = << >> THEN
               last' = answer(200, <<"stream">>, << >>) /\ runs' = ended("done")
           ELSE
               /\ last' = last
               /\ runs' = [runs EXCEPT ![i] =
                              [pc |-> "writing", cluster_map |-> cluster_map, batch |-> 1]]

\* One batch.commit() of run_clustering on instance i, main.py:852-864, and
\* the answer after the last one (or after one that raises)
commit_batch(i, fails) ==
    LET answer(code, store_ops, cluster_map) ==
            Response("run_clustering", code, None, store_ops, None)
            @@ [cluster_map |-> cluster_map]
        cluster_map == runs[i].cluster_map
        batches == batches_of(cluster_map)
        b == runs[i].batch
        store_ops == <<"stream">> \o [k \in 1..b |-> "commit"]
    IN  /\ runs[i].pc = "writing"
        /\ UNCHANGED <<cfg, blobs, now>>
        /\ fn' = NoCall
        /\ IF fails \/ ~commit_possible(records, batches[b]) THEN
               /\ records' = records
               /\ last' = answer(500, store_ops, cluster_map)
               /\ runs' = [runs EXCEPT ![i].pc = "failed"]
           ELSE
               /\ records' = commit(records, batches[b])
               /\ IF b = Len(batches)
                  THEN /\ last' = answer(200, store_ops, cluster_map)
                       /\ runs' = [runs EXCEPT ![i].pc = "done"]
                  ELSE /\ last' = last
                       /\ runs' = [runs EXCEPT ![i].batch = b + 1]

----------------------------------------------------------------------------
(* update_detection_status by its store calls, for the instances running
   side by side: the read, and the write that follows it *)

\* update_detection_status up to its read, main.py:787-806, on instance i
update_get(i, detection_id, status) ==
    LET answer(code, store_ops) ==
            Response("update_detection_status", code, Some(detection_id), store_ops,
                     Some(status))
    IN  /\ runs[i].pc \notin {"writing", "updating"}
        /\ UNCHANGED <<cfg, blobs, records, now>>
        /\ fn' = NoCall
        /\ IF ensure_gcp_fails THEN
               last' = answer(500, << >>) /\ runs' = runs
           ELSE IF status \notin valid_statuses THEN
               last' = answer(400, << >>) /\ runs' = runs
           ELSE IF detection_id \notin DOMAIN records THEN
               last' = answer(404, <<"get">>) /\ runs' = runs
           ELSE
               /\ last' = last
               /\ runs' = [runs EXCEPT ![i] =
                              [pc |-> "updating", id |-> detection_id, status |-> status]]

\* The write of update_detection_status as set(..., merge=True): a document
\* that is gone is written anew with the two fields
update_write_upserting(i) ==
    LET id == runs[i].id
        status == runs[i].status
        blank == [DetectionRecord(id, None, None, None, None, [numDetections |-> 0],
                                  "low", 0, GeoDefaults) EXCEPT !.storagePath = None]
        doc == IF id \in DOMAIN records THEN records[id] ELSE blank
    IN  /\ runs[i].pc = "updating"
        /\ UNCHANGED <<cfg, blobs, now>>
        /\ fn' = NoCall
        /\ runs' = [runs EXCEPT ![i] = Idle]
        /\ last' = Response("update_detection_status", 200, Some(id), <<"get", "update">>,
                            Some(status))
        /\ records' = (id :> [doc EXCEPT !.status = status, !.updatedAt = Some(now)])
                      @@ records

\* The write of update_detection_status and its answer, main.py:808-818, on
\* instance i.  doc_ref.update() raises NotFound on a document that is gone;
\* the handler turns that into 500.
update_write(i) ==
    LET id == runs[i].id
        status == runs[i].status
        answer(code) ==
            Response("update_detection_status", code, Some(id), <<"get", "update">>,
                     Some(status))
    IN  /\ runs[i].pc = "updating"
        /\ UNCHANGED <<cfg, blobs, now>>
        /\ fn' = NoCall
        /\ runs' = [runs EXCEPT ![i] = Idle]
        /\ IF id \notin DOMAIN records THEN
               last' = answer(500) /\ records' = records
           ELSE
               /\ last' = answer(200)
               /\ records' = [records EXCEPT ![id].status = status,
                                             ![id].updatedAt = Some(now)]

----------------------------------------------------------------------------
(* The analytics views, main.py:540-784.  They read documents as Firestore
   returns them (doc.to_dict()): a document is a record over the keys it
   has, a value is None (null) or Some(v).  A document written by
   _persist_record has every key; one written before the priority fields
   existed (migrations/001_add_priority_fields.py) lacks them. *)

LIMIT_MAX == 500
DAYS_MAX == 365

\* dict.get(key, default)
get(data, key, default) == IF key \in DOMAIN data THEN data[key] ELSE default

\* createdAt values: the ISO string with a UTC designator that model_dump_json
\* writes (main.py:248), an ISO string without an offset, a string that is no
\* date, and a native Firestore timestamp
IsoUtc(day) == [kind |-> "iso_utc", day |-> day]
IsoNaive(day) == [kind |-> "iso_naive", day |-> day]
NoDate == [kind |-> "text", day |-> 0]
Timestamp(day) == [kind |-> "timestamp", day |-> day]

\* doc.to_dict() of a document as _persist_record writes it, main.py:242-250
StoredDoc(status, severity, priority_score, area, createdAt) ==
    [status |-> Some(status), severity |-> Some(severity),
     priority_score |-> Some(priority_score), area |-> area, createdAt |-> createdAt]

\* a document without one of the keys
without(data, key) == [k \in DOMAIN data \ {key} |-> data[k]]

\* `if status:` of main.py:557
truthy(status) == status # None /\ status # Some("")

\* The place of a priority_score in Firestore's descending order: numbers
\* from the largest down, null after them
rank(data) == IF data.priority_score = None THEN -1 ELSE data.priority_score[1]

\* order_by("priority_score", DESCENDING): by value, equal values by document
\* id in the same direction
precedes(recs, a, b) ==
    \/ rank(recs[a]) > rank(recs[b])
    \/ rank(recs[a]) = rank(recs[b]) /\ a > b

\* documents in the order of their ids only
RECURSIVE descending_by_id(_, _)
descending_by_id(recs, ids) ==
    IF ids = {} THEN << >>
    ELSE LET first == CHOOSE a \in ids : \A b \in ids : a >= b
         IN  <<first>> \o descending_by_id(recs, ids \ {first})

RECURSIVE descending(_, _)
descending(recs, ids) ==
    IF ids = {} THEN << >>
    ELSE LET first == CHOOSE a \in ids : \A b \in ids \ {a} : precedes(recs, a, b)
         IN  <<first>> \o descending(recs, ids \ {first})

\* The documents the query of main.py:554-563 selects: where("status", ...)
\* and order_by("priority_score") both leave out a document without the field
selected(recs, status) ==
    {id \in DOMAIN recs :
        /\ "status" \in DOMAIN recs[id] /\ recs[id].status # None
        /\ IF truthy(status) THEN recs[id].status = status
           ELSE recs[id].status[1] \in open_statuses
        /\ "priority_score" \in DOMAIN recs[id]}

\* An entry of the queue, main.py:571-583
queue_entry(id, data) ==
    [id |-> id, status |-> data.status, priority_score |-> data.priority_score,
     severity |-> get(data, "severity", None), area |-> get(data, "area", None)]

\* GET /v1/detections/priority-queue, main.py:540-589
get_priority_queue(status, limit, fault) ==
    LET answer(code, store_ops, queue) ==
            Response("get_priority_queue", code, None, store_ops, status)
            @@ [queue |-> queue, limit |-> limit]
        ordered == descending(records, selected(records, status))
        docs == SubSeq(ordered, 1, Min(limit, Len(ordered)))
        results == [k \in 1..Len(docs) |-> queue_entry(docs[k], records[docs[k]])]
    IN  /\ UNCHANGED <<cfg, records, blobs, runs, now>>
        /\ fn' = NoCall
        /\ IF limit < 1 \/ limit > LIMIT_MAX THEN last' = answer(422, << >>, << >>)
           ELSE IF ensure_gcp_fails THEN last' = answer(500, << >>, << >>)
           ELSE IF fault = "stream" THEN last' = answer(500, <<"stream">>, << >>)
           ELSE last' = answer(200, <<"stream">>, results)

\* The documents a stream() of the whole collection yields data for, in the
\* order of their ids (`if not data: continue`, main.py:625-627 and 723-725)
scanned(recs) == {id \in DOMAIN recs : DOMAIN recs[id] # {}}

RECURSIVE sum_of(_, _)
sum_of(f, ids) ==
    IF ids = {} THEN 0
    ELSE LET id == CHOOSE x \in ids : TRUE IN f[id] + sum_of(f, ids \ {id})

HOTSPOT_COUNT == 10

\* The counters of one area, main.py:611-620
StatKeys == {"count", "high", "medium", "low", "repaired", "pending",
             "avg_priority", "priority_sum"}

\* data.get("area") without the fallback to "Unknown"
area_of_raw(data) ==
    LET area == get(data, "area", None) IN IF area = None THEN "" ELSE area[1]

\* data.get("area") or "Unknown", main.py:629
area_of(data) ==
    LET area == get(data, "area", None)
    IN  IF area = None \/ area = Some("") THEN "Unknown" ELSE area[1]

\* stats[severity] += 1 and stats["priority_sum"] += priority raise for a
\* severity that is no counter and for a null priority_score, main.py:630-637
area_update_raises(data) ==
    \/ get(data, "severity", Some("low")) = None
    \/ get(data, "severity", Some("low"))[1] \notin StatKeys
    \/ get(data, "priority_score", Some(0)) = None

\* The counters of an area after the loop of main.py:623-642
area_stats(recs, area) ==
    LET group == {id \in scanned(recs) : area_of(recs[id]) = area}
        first == CHOOSE id \in group : \A other \in group : id <= other
        tally(key) ==
            Cardinality({id \in group : get(recs[id], "severity", Some("low")) = Some(key)})
        repaired == {id \in group : get(recs[id], "status", Some("reported")) = Some("repaired")}
        priority == [id \in group |-> get(recs[id], "priority_score", Some(0))[1]]
    IN  [area |-> area,
         first |-> first,
         total_potholes |-> Cardinality(group) + tally("count"),
         high |-> tally("high"), medium |-> tally("medium"), low |-> tally("low"),
         repaired |-> Cardinality(repaired) + tally("repaired"),
         pending |-> Cardinality(group \ repaired) + tally("pending"),
         priority_sum |-> sum_of(priority, group) + tally("priority_sum")]

\* results.sort(key=total_potholes, reverse=True), main.py:672: a stable
\* sort of the areas in the order the scan met them
RECURSIVE by_total(_)
by_total(stats) ==
    IF stats = {} THEN << >>
    ELSE LET top == CHOOSE a \in stats : \A b \in stats \ {a} :
                        \/ a.total_potholes > b.total_potholes
                        \/ a.total_potholes = b.total_potholes /\ a.first < b.first
         IN  <<top>> \o by_total(stats \ {top})

\* get_area_analytics that removes the documents without data it meets
get_area_analytics_pruning(fault) ==
    /\ UNCHANGED <<cfg, blobs, runs, now>>
    /\ fn' = NoCall
    /\ last' = Response("get_area_analytics", 500, None, <<"stream">>, None)
               @@ [by_area |-> << >>, hotspots |-> << >>]
    /\ records' = [id \in scanned(records) |-> records[id]]

\* GET /v1/analytics/by-area, main.py:592-688
get_area_analytics(fault) ==
    LET answer(code, store_ops, by_area) ==
            Response("get_area_analytics", code, None, store_ops, None)
            @@ [by_area |-> by_area,
                hotspots |-> SelectSeq(by_area, LAMBDA a : a.total_potholes > HOTSPOT_COUNT)]
        areas == {area_of(records[id]) : id \in scanned(records)}
        results == by_total({area_stats(records, area) : area \in areas})
    IN  /\ UNCHANGED <<cfg, records, blobs, runs, now>>
        /\ fn' = NoCall
        /\ IF ~cfg.analytics THEN last' = answer(503, << >>, << >>)
           ELSE IF ensure_gcp_fails THEN last' = answer(500, << >>, << >>)
           ELSE IF fault = "stream" THEN last' = answer(500, <<"stream">>, << >>)
           ELSE IF \E id \in scanned(records) : area_update_raises(records[id])
                THEN last' = answer(500, <<"stream">>, << >>)
           ELSE last' = answer(200, <<"stream">>, results)

\* What the loop of get_statistics does with a document, main.py:727-735:
\* a string is parsed by datetime.fromisoformat, which rejects the UTC
\* designator Z before Python 3.11 (cfg.fromisoformat_z); a parsed value
\* without an offset cannot be compared with the cutoff, which has one
created_outcome(data, cutoff) ==
    LET created_at == get(data, "createdAt", None)
    IN  IF created_at = None THEN "count"
        ELSE LET c == created_at[1]
             IN  IF c.kind = "text" THEN "skip"
                 ELSE IF c.kind = "iso_utc" /\ ~cfg.fromisoformat_z THEN "skip"
                 ELSE IF c.kind = "iso_naive" THEN "raise"
                 ELSE IF c.day < cutoff THEN "skip"
                 ELSE "count"

\* created_outcome that also skips a document without a createdAt
created_outcome_strict(data, cutoff) ==
    IF get(data, "createdAt", None) = None THEN "skip" ELSE created_outcome(data, cutoff)

\* round(repaired / total * 100, 1) in tenths of a percent, main.py:773
repair_rate(repaired, total) ==
    IF total > 0 THEN (2000 * repaired + total) \div (2 * total) ELSE 0

\* GET /v1/analytics/statistics, main.py:691-784
get_statistics(days, fault) ==
    LET answer(code, store_ops, stats) ==
            Response("get_statistics", code, None, store_ops, None)
            @@ [period_days |-> days, stats |-> stats]
        cutoff_date == now - days
        counted == {id \in scanned(records) : created_outcome(records[id], cutoff_date) = "count"}
        repaired == {id \in counted : get(records[id], "status", Some("reported")) = Some("repaired")}
        stats == [total_potholes |-> Cardinality(counted),
                  repaired |-> Cardinality(repaired),
                  pending |-> Cardinality(counted \ repaired),
                  repair_rate |-> repair_rate(Cardinality(repaired), Cardinality(counted))]
    IN  /\ UNCHANGED <<cfg, records, blobs, runs, now>>
        /\ fn' = NoCall
        /\ IF days < 1 \/ days > DAYS_MAX THEN last' = answer(422, << >>, None)
           ELSE IF ~cfg.analytics THEN last' = answer(503, << >>, None)
           ELSE IF ensure_gcp_fails THEN last' = answer(500, << >>, None)
           ELSE IF fault = "stream" THEN last' = answer(500, <<"stream">>, None)
           ELSE IF \E id \in scanned(records) :
                       created_outcome(records[id], cutoff_date) = "raise"
                THEN last' = answer(500, <<"stream">>, None)
           ELSE last' = answer(200, <<"stream">>, Some(stats))

----------------------------------------------------------------------------
(* Direct calls of the pure helpers *)

\* The state of a process that serves no request: an empty collection.
Quiet ==
    /\ records = << >>
    /\ blobs = {}
    /\ runs = << >>
    /\ last = [op |-> "none", code |-> 0, id |-> None, store_ops |-> << >>,
               status |-> None]
    /\ now = 0

InitSeverity ==
    /\ Quiet
    /\ cfg \in {Config(TRUE, TRUE, s, TRUE, TRUE, TRUE) : s \in BOOLEAN}
    /\ fn \in [op : {"_calculate_severity", "calculate_severity"},
               num_detections : 0..MaxDetections,
               max_confidence : 0..100,
               called : {FALSE}]

CallSeverity ==
    /\ fn.op = "_calculate_severity" /\ ~fn.called
    /\ fn' = [fn EXCEPT !.called = TRUE] @@
             [out |-> _calculate_severity(fn.num_detections, fn.max_confidence)]
    /\ UNCHANGED <<cfg, records, blobs, runs, last, now>>

CallMigrationSeverity ==
    /\ fn.op = "calculate_severity" /\ ~fn.called
    /\ fn' = [fn EXCEPT !.called = TRUE] @@
             [out |-> calculate_severity(fn.num_detections, fn.max_confidence)]
    /\ UNCHANGED <<cfg, records, blobs, runs, last, now>>

NextSeverity == CallSeverity \/ CallMigrationSeverity

SpecSeverity == InitSeverity /\ [][NextSeverity]_vars

InitScore ==
    /\ Quiet
    /\ cfg \in {Config(TRUE, TRUE, s, TRUE, TRUE, TRUE) : s \in BOOLEAN}
    /\ fn \in [op : {"_calculate_priority_score"},
               severity : Severities,
               road_type : RoadTypes \cup {"unknown"},
               num_detections : 0..MaxDetections,
               age_tenths : 0..MaxAgeTenths,
               called : {FALSE}]

CallPriorityScore ==
    /\ fn.op = "_calculate_priority_score" /\ ~fn.called
    /\ fn' = [fn EXCEPT !.called = TRUE] @@
             [out |-> _calculate_priority_score(
                  fn.severity, fn.road_type, fn.num_detections, fn.age_tenths)]
    /\ UNCHANGED <<cfg, records, blobs, runs, last, now>>

NextScore == CallPriorityScore

SpecScore == InitScore /\ [][NextScore]_vars

MaxPoints == 4          \* _cluster_potholes is called on up to MaxPoints documents

\* Coordinates that give distances below, at and above eps: (0,0)-(3,4) is
\* exactly 5, (3,4)-(1,5) is below 5, (0,0)-(1,5) is above 5, and (20,0),
\* (20,4) lie far from the other three.
GridPoints == {Point(0, 0), Point(3, 4), Point(1, 5), Point(20, 0), Point(20, 4)}

\* All lists of at most n documents with ids 1.., each with or without a location
RECURSIVE DocumentLists(_)
DocumentLists(n) ==
    IF n = 0 THEN {<< >>}
    ELSE LET shorter == DocumentLists(n - 1)
         IN  shorter \cup
             {Append(ds, [id |-> Len(ds) + 1, location |-> loc]) :
                 ds \in {d \in shorter : Len(d) = n - 1},
                 loc \in {None} \cup {Some(p) : p \in GridPoints}}

InitDbscan ==
    /\ Quiet
    /\ cfg \in {Config(TRUE, TRUE, TRUE, TRUE, TRUE, c) : c \in BOOLEAN}
    /\ fn \in [op : {"_cluster_potholes"}, detections : DocumentLists(MaxPoints),
               called : {FALSE}]

CallClusterPotholes ==
    /\ fn.op = "_cluster_potholes" /\ ~fn.called
    /\ fn' = [fn EXCEPT !.called = TRUE] @@ [out |-> _cluster_potholes(fn.detections)]
    /\ UNCHANGED <<cfg, records, blobs, runs, last, now>>

NextDbscan == CallClusterPotholes

SpecDbscan == InitDbscan /\ [][NextDbscan]_vars

----------------------------------------------------------------------------
(* The write batches of run_clustering, called directly *)

MaxAssignments == 5     \* cluster maps hold up to MaxAssignments entries

RECURSIVE ClusterMaps(_)
ClusterMaps(n) ==
    IF n = 0 THEN {<< >>}
    ELSE LET shorter == ClusterMaps(n - 1)
         IN  shorter \cup
             {Append(m, [id |-> n, cluster_id |-> c]) :
                 m \in {x \in shorter : Len(x) = n - 1},
                 c \in {cluster_name(0), cluster_name(1)}}

InitBatches ==
    /\ Quiet
    /\ cfg = AllOn
    /\ fn \in [op : {"batches_of"}, cluster_map : ClusterMaps(MaxAssignments), called : {FALSE}]

CallBatches ==
    /\ fn.op = "batches_of" /\ ~fn.called
    /\ fn' = [fn EXCEPT !.called = TRUE] @@ [out |-> batches_of(fn.cluster_map)]
    /\ UNCHANGED <<cfg, records, blobs, runs, last, now>>

NextBatches == CallBatches

SpecBatches == InitBatches /\ [][NextBatches]_vars

----------------------------------------------------------------------------
(* The service: one process serving create and status-update requests *)

MaxRecords == 2         \* document ids are 1..MaxRecords

NoRequest == Response("none", 0, None, << >>, None)

\* The configurations the service is started in: everything on, and each
\* dependency or feature missing in turn.
ServiceConfigs ==
    {AllOn,
     Config(FALSE, TRUE, TRUE, TRUE, TRUE, TRUE),
     Config(TRUE, FALSE, TRUE, TRUE, TRUE, TRUE),
     Config(TRUE, TRUE, FALSE, TRUE, TRUE, TRUE),
     Config(TRUE, TRUE, TRUE, FALSE, TRUE, TRUE),
     Config(TRUE, TRUE, TRUE, TRUE, FALSE, TRUE)}

Detection(n, c) == [numDetections |-> n, maxConfidence |-> c]

\* uuid4: an id no earlier request has used
FreshIds(ids) == ids \ (DOMAIN records \cup blobs)

Init ==
    /\ cfg \in ServiceConfigs
    /\ records = << >>
    /\ blobs = {}
    /\ runs = << >>
    /\ last = NoRequest
    /\ fn = NoCall
    /\ now = 0

CreateDetection ==
    \E uid \in FreshIds(1..MaxRecords), lat \in {None, Some(0)}, lng \in {None, Some(0)},
       det \in {Detection(2, 80)},
       resp \in {GeoRaise, GeoEmpty,
                 GeoResult(<<[types |-> << >>, long_name |-> MainSt]>>),
                 GeoResult(<<Component("route", Hwy10), Component("locality", "Brampton")>>)},
       fault \in {"none", "inference"} :
        create_detection(uid, lat, lng, det, resp, fault, 0)

UpdateDetectionStatus ==
    \E id \in 1..MaxRecords, status \in valid_statuses \cup {"fixed"},
       fault \in {"none", "get", "update"} :
        update_detection_status(id, status, fault)

Next == CreateDetection \/ UpdateDetectionStatus

Spec == Init /\ [][Next]_vars

----------------------------------------------------------------------------
(* The service with the clustering job: detections at two sites 0.002
   degrees apart, or without a location, and the job run between requests *)

MaxCluRecords == 3      \* document ids are 1..MaxCluRecords

ClusterConfigs == {AllOn, Config(TRUE, TRUE, TRUE, TRUE, TRUE, FALSE)}

InitCluster ==
    /\ cfg \in ClusterConfigs
    /\ records = << >>
    /\ blobs = {}
    /\ runs = << >>
    /\ last = NoRequest
    /\ fn = NoCall
    /\ now = 0

ClusterCreateDetection ==
    \E uid \in FreshIds(1..MaxCluRecords), lat \in {None, Some(0), Some(20)},
       lng \in {None, Some(0)} :
        create_detection(uid, lat, lng, Detection(2, 80),
                         GeoResult(<<Component("route", Hwy10), Component("locality", "Brampton")>>),
                         "none", 0)

ClusterUpdateDetectionStatus ==
    \E id \in 1..MaxCluRecords, status \in {"reported", "repaired"} :
        update_detection_status(id, status, "none")

RunClustering ==
    \E stream_fails \in BOOLEAN, failing \in 0..2 :
        run_clustering(stream_fails, failing)

NextCluster == ClusterCreateDetection \/ ClusterUpdateDetectionStatus \/ RunClustering

SpecCluster == InitCluster /\ [][NextCluster]_vars

----------------------------------------------------------------------------
(* Two service instances on one Firestore collection.  Within an instance
   the handlers run one after the other (they never await); instances run
   side by side, so the store calls of two clustering requests interleave. *)

MaxConcRecords == 5     \* document ids are 1..MaxConcRecords

Instances == {1, 2}

\* Where the detections are reported: the first two at one site, the others
\* at a site 0.002 degrees away
site_of(uid) == IF uid <= 2 THEN 0 ELSE 20

InitConcurrent ==
    /\ cfg = AllOn
    /\ records = << >>
    /\ blobs = {}
    /\ runs = [i \in Instances |-> Idle]
    /\ last = NoRequest
    /\ fn = NoCall
    /\ now = 0

ConcurrentCreateDetection ==
    \E uid \in FreshIds(1..MaxConcRecords) :
        /\ \A other \in FreshIds(1..MaxConcRecords) : uid <= other
        /\ create_detection(uid, Some(site_of(uid)), Some(0), Detection(2, 80),
                            GeoEmpty, "none", 0)

ConcurrentUpdateDetectionStatus ==
    \E id \in DOMAIN records :
        /\ records[id].status # "repaired"
        /\ update_detection_status(id, "repaired", "none")

StartRun == \E i \in Instances : start_run(i, FALSE)

CommitBatch == \E i \in Instances : commit_batch(i, FALSE)

NextConcurrent ==
    \/ ConcurrentCreateDetection
    \/ ConcurrentUpdateDetectionStatus
    \/ StartRun
    \/ CommitBatch

SpecConcurrent == InitConcurrent /\ [][NextConcurrent]_vars

----------------------------------------------------------------------------
(* The analytics views over a collection as it may be found: documents the
   service wrote, documents from before the priority fields, and documents
   with null or malformed values *)

MaxDocs == 3            \* document ids are 1..MaxDocs
Today == 10             \* the day of the requests

WrittenDocs ==
    {StoredDoc("reported", "high", 90, Some("Brampton"), Some(IsoUtc(10))),
     StoredDoc("repaired", "low", 30, Some("Brampton"), Some(IsoUtc(2))),
     StoredDoc("verified", "medium", 90, None, Some(Timestamp(9)))}

LegacyDocs ==
    {[createdAt |-> Some(IsoUtc(9))],
     without(StoredDoc("scheduled", "low", 30, Some("Caledon"), None), "createdAt"),
     << >>}

MalformedDocs ==
    {StoredDoc("reported", "low", 30, Some(""), None),
     StoredDoc("reported", "low", 30, Some("Brampton"), Some(NoDate)),
     StoredDoc("reported", "low", 30, Some("Brampton"), Some(IsoNaive(10))),
     [StoredDoc("reported", "low", 30, None, Some(IsoUtc(10))) EXCEPT !.severity = None],
     [StoredDoc("reported", "low", 30, None, Some(IsoUtc(10))) EXCEPT !.severity = Some("critical")],
     [StoredDoc("reported", "low", 30, None, Some(IsoUtc(10))) EXCEPT !.priority_score = None]}

AnalyticsDocs == WrittenDocs \cup LegacyDocs \cup MalformedDocs

\* The collections examined: documents the service wrote and at most one
\* other document
Collections ==
    {c \in UNION {[ids -> AnalyticsDocs] : ids \in SUBSET (1..MaxDocs)} :
        Cardinality({id \in DOMAIN c : c[id] \notin WrittenDocs}) <= 1}

AnalyticsConfigs ==
    {AllOn @@ [analytics |-> TRUE, fromisoformat_z |-> TRUE],
     AllOn @@ [analytics |-> TRUE, fromisoformat_z |-> FALSE],
     AllOn @@ [analytics |-> FALSE, fromisoformat_z |-> TRUE]}

InitAnalytics ==
    /\ cfg \in AnalyticsConfigs
    /\ records \in Collections
    /\ blobs = {}
    /\ runs = << >>
    /\ last = NoRequest
    /\ fn = NoCall
    /\ now = Today

GetPriorityQueue ==
    \E status \in {None, Some(""), Some("reported"), Some("repaired")},
       limit \in {0, 1, LIMIT_MAX, LIMIT_MAX + 1}, fault \in {"none", "stream"} :
        /\ fault = "stream" \/ limit \notin 1..LIMIT_MAX => status = None
        /\ fault = "stream" => limit = 1
        /\ get_priority_queue(status, limit, fault)

GetAreaAnalytics == \E fault \in {"none", "stream"} : get_area_analytics(fault)

GetStatistics ==
    \E days \in {0, 1, 3, DAYS_MAX + 1}, fault \in {"none", "stream"} :
        /\ fault = "stream" => days = 1
        /\ get_statistics(days, fault)

NextAnalytics == GetPriorityQueue \/ GetAreaAnalytics \/ GetStatistics

SpecAnalytics == InitAnalytics /\ [][NextAnalytics]_vars

----------------------------------------------------------------------------
(* Creation and deletion with their failures, the clock advancing while a
   detection is created *)

MaxLifeRecords == 2     \* document ids are 1..MaxLifeRecords
MaxClock == 2           \* the clock is not followed beyond this reading

LifecycleConfigs ==
    {AllOn,
     Config(FALSE, TRUE, TRUE, TRUE, TRUE, TRUE),
     Config(TRUE, FALSE, TRUE, TRUE, TRUE, TRUE)}

CreateFaults == {"none", "too_large", "inference", "upload", "persist"}

InitLifecycle ==
    /\ cfg \in LifecycleConfigs
    /\ records = << >>
    /\ blobs = {}
    /\ runs = << >>
    /\ last = NoRequest
    /\ fn = NoCall
    /\ now = 0

LifecycleCreateDetection ==
    \E uid \in FreshIds(1..MaxLifeRecords), lat \in {None, Some(0), Some(LAT_MAX + 1)},
       lng \in {None, Some(0)}, fault \in CreateFaults, dt \in 0..1 :
        /\ now + dt <= MaxClock
        /\ create_detection(uid, lat, lng, Detection(2, 80), GeoEmpty, fault, dt)

DeleteDetection ==
    \E id \in 1..MaxLifeRecords, fault \in {"none", "get", "delete", "blob"} :
        delete_detection(id, fault)

NextLifecycle == LifecycleCreateDetection \/ DeleteDetection

SpecLifecycle == InitLifecycle /\ [][NextLifecycle]_vars

----------------------------------------------------------------------------
(* Deletion racing the writes of other requests: two instances, the status
   update and the clustering run taken store call by store call *)

MaxRaceRecords == 3     \* document ids are 1..MaxRaceRecords

\* The instance is between the store calls of a request
busy(i) == runs[i].pc \in {"writing", "updating"}

InitRace == InitConcurrent

\* Detections at one site, a tick of the clock apart; the n-th uuid4 drawn
\* is written n, so that the ids drawn so far are 1..now
RaceCreateDetection ==
    /\ \E i \in Instances : ~busy(i)
    /\ now < MaxRaceRecords
    /\ create_detection(now + 1, Some(0), Some(0), Detection(2, 80), GeoEmpty, "none", 1)

RaceDeleteDetection ==
    /\ \E i \in Instances : ~busy(i)
    /\ \E id \in 1..now : delete_detection(id, "none")

UpdateGet == \E i \in Instances, id \in 1..now : update_get(i, id, "repaired")

UpdateWrite == \E i \in Instances : update_write(i)

RaceStartRun == \E i \in Instances : ~busy(i) /\ start_run(i, FALSE)

RaceCommitBatch == \E i \in Instances : commit_batch(i, FALSE)

NextRace ==
    \/ RaceCreateDetection
    \/ RaceDeleteDetection
    \/ UpdateGet
    \/ UpdateWrite
    \/ RaceStartRun
    \/ RaceCommitBatch

SpecRace == InitRace /\ [][NextRace]_vars

----------------------------------------------------------------------------
(* C1: with priority scoring enabled, _calculate_severity returns high     *)
(* exactly when numDetections >= 3 or maxConfidence > 0.9, medium exactly  *)
(* when that fails and numDetections = 2 or 0.7 <= maxConfidence <= 0.9,   *)
(* and low otherwise; the six boundary cases of the spec come out as       *)
(* stated.  The migration's calculate_severity follows the same table.     *)

SeverityCalled ==
    /\ fn.op \in {"_calculate_severity", "calculate_severity"}
    /\ fn.called
    /\ (fn.op = "_calculate_severity" => cfg.priority_scoring)

SeverityBoundaryCases ==
    {<<1, 69, "low">>, <<2, 0, "medium">>, <<1, 95, "high">>,
     <<3, 0, "high">>, <<1, 70, "medium">>, <<1, 90, "medium">>}

C1_SeverityTable ==
    SeverityCalled =>
        LET n == fn.num_detections
            c == fn.max_confidence
            isHigh == n >= 3 \/ c > 90
            isMedium == ~isHigh /\ (n = 2 \/ (c >= 70 /\ c <= 90))
        IN  /\ fn.out \in Severities
            /\ (fn.out = "high") <=> isHigh
            /\ (fn.out = "medium") <=> isMedium
            /\ (fn.out = "low") <=> (~isHigh /\ ~isMedium)
            /\ \A b \in SeverityBoundaryCases :
                   (n = b[1] /\ c = b[2]) => fn.out = b[3]

C1_Witness ==
    /\ SeverityCalled
    /\ fn.op = "_calculate_severity"
    /\ fn.num_detections = 1 /\ fn.max_confidence = 90 /\ fn.out = "medium"

(* C2: with priority scoring enabled, _calculate_priority_score returns    *)
(* clamp(base + roadBonus + min(5n, 20) + min(floor(5 age), 20), 0, 100),  *)
(* an integer in 0..100; (high, highway, 5, 10 days) gives 100 and         *)
(* (low, residential, 0, 0) gives 25.                                      *)

ScoreCalled ==
    fn.op = "_calculate_priority_score" /\ fn.called /\ cfg.priority_scoring

C2_PriorityScore ==
    ScoreCalled =>
        LET base == [low |-> 25, medium |-> 50, high |-> 75][fn.severity]
            bonus == IF fn.road_type = "arterial" THEN 15
                     ELSE IF fn.road_type = "highway" THEN 25 ELSE 0
            det == IF fn.num_detections * 5 > 20 THEN 20 ELSE fn.num_detections * 5
            \* floor(age * 5) for an age of t tenths of a day
            aged == CHOOSE k \in 0..(5 * MaxAgeTenths + 5) :
                        10 * k <= 5 * fn.age_tenths /\ 5 * fn.age_tenths < 10 * (k + 1)
            age == IF aged > 20 THEN 20 ELSE aged
            sum == base + bonus + det + age
        IN  /\ fn.out \in 0..100
            /\ fn.out = IF sum > 100 THEN 100 ELSE IF sum < 0 THEN 0 ELSE sum
            /\ (fn.severity = "high" /\ fn.road_type = "highway"
                /\ fn.num_detections = 5 /\ fn.age_tenths = 100) => fn.out = 100
            /\ (fn.severity = "low" /\ fn.road_type = "residential"
                /\ fn.num_detections = 0 /\ fn.age_tenths = 0) => fn.out = 25

C2_Witness ==
    /\ ScoreCalled
    /\ fn.severity = "high" /\ fn.road_type = "highway"
    /\ fn.num_detections = 5 /\ fn.age_tenths = 100 /\ fn.out = 100

(* C3: update_detection_status with a target status outside the four      *)
(* known values is answered 400 without any store call, and with a valid   *)
(* target status and an id that has no document it is answered 404; the    *)
(* collection is the same after either request.  (When the clients or the  *)
(* bucket are not configured the request ends 500 in _ensure_gcp, also     *)
(* without a store call; a failing store read ends 500.)                   *)

UpdateAnswered == last'.op = "update_detection_status"

C3_InvalidStatusOrUnknownId ==
    [][UpdateAnswered =>
          LET id == last'.id[1]
              status == last'.status[1]
          IN  /\ status \notin valid_statuses =>
                    /\ last'.store_ops = << >>
                    /\ records' = records
                    /\ last'.code = IF cfg.gcp THEN 400 ELSE 500
              /\ (status \in valid_statuses /\ id \notin DOMAIN records) =>
                    /\ records' = records
                    /\ cfg.gcp =>
                          \/ last'.code = 404 /\ last'.store_ops = <<"get">>
                          \* the store read itself raised
                          \/ last'.code = 500 /\ last'.store_ops = <<"get">>]_vars

C3_Witness ==
    /\ last.op = "update_detection_status"
    /\ last.code = 400
    /\ last.id[1] \in DOMAIN records
    /\ records[last.id[1]].status = "verified"

(* C4: the status lifecycle has no adjacency check.  For an existing       *)
(* document in any status and any of the four target statuses (the same    *)
(* status and a move out of repaired included) update_detection_status     *)
(* answers 200 and leaves the document with the target status, unless the  *)
(* service is not configured or a store call raises; a created document    *)
(* starts as reported and every stored status is one of the four values.   *)

C4_StatusAlwaysValid ==
    \A id \in DOMAIN records : records[id].status \in valid_statuses

C4_AnyTargetAccepted ==
    \A s \in valid_statuses, t \in valid_statuses, id \in DOMAIN records :
        (cfg.gcp /\ records[id].status = s) =>
            ENABLED (update_detection_status(id, t, "none")
                     /\ last'.code = 200 /\ records'[id].status = t)

C4_AnyTransition ==
    /\ [](C4_StatusAlwaysValid /\ C4_AnyTargetAccepted)
    /\ [][/\ (UpdateAnswered /\ last'.status[1] \in valid_statuses
              /\ last'.id[1] \in DOMAIN records) =>
                 /\ last'.code \in {200, 500}
                 /\ last'.code = 200 => records'[last'.id[1]].status = last'.status[1]
                 /\ last'.code = 500 =>
                        \/ ~cfg.gcp
                        \/ last'.store_ops \in {<<"get">>, <<"get", "update">>}
                           /\ records' = records
          /\ (last'.op = "create_detection" /\ last'.code = 201) =>
                 /\ last'.id[1] \notin DOMAIN records
                 /\ records'[last'.id[1]].status = "reported"]_vars

C4_Witness ==
    /\ last.op = "update_detection_status"
    /\ last.code = 200
    /\ \E a \in DOMAIN records, b \in DOMAIN records :
          /\ a # b
          /\ records[a].status = "repaired"
          /\ records[b].status = "reported" /\ records[b].updatedAt # None

(* C5: when reverse geocoding is disabled, has no client, returns no       *)
(* results or raises (in the client or while the components are read),     *)
(* _reverse_geocode returns exactly street_name = None, area = None,       *)
(* road_type = residential, and the create_detection that called it is     *)
(* answered 201 with a stored document that carries those values.          *)

GeocodeCalled == last.op = "create_detection" /\ fn.op = "_reverse_geocode" /\ fn.called

GeocodeUnavailable ==
    \/ ~cfg.reverse_geocoding
    \/ ~cfg.gmaps_client
    \/ fn.resp.kind \in {"raise", "empty"}
    \/ /\ fn.resp.kind = "results"
       /\ \E i \in 1..Len(fn.resp.address_components) :
              fn.resp.address_components[i].types = << >>

C5_GeocodeFailureAbsorbed ==
    (GeocodeCalled /\ GeocodeUnavailable) =>
        /\ fn.out = [street_name |-> << >>, area |-> << >>, road_type |-> "residential"]
        /\ last.code = 201
        /\ last.id[1] \in DOMAIN records
        /\ LET record == records[last.id[1]]
           IN  /\ record.location # None
               /\ record.street_name = None
               /\ record.area = None
               /\ record.road_type = "residential"

C5_Witness ==
    /\ GeocodeCalled
    /\ cfg.reverse_geocoding /\ cfg.gmaps_client
    /\ fn.resp.kind = "raise"
    /\ last.code = 201
    /\ records[last.id[1]].road_type = "residential"

(* C7: _cluster_potholes is density-based clustering with eps = 0.0005 and *)
(* minPts = 2 under planar distance: a located document with at least two  *)
(* located documents (itself included) within eps is a core point; core    *)
(* points within eps of each other get the same cluster id; a non-core     *)
(* point within eps of a core point gets the id of such a core point; all  *)
(* other documents are absent from the map; documents with the same id are *)
(* linked by a chain of steps of at most eps.  So two documents within eps *)
(* of each other share a non-null id and a document farther than eps from  *)
(* every other has none.                                                   *)

ClusterPotholesCalled == fn.op = "_cluster_potholes" /\ fn.called /\ cfg.clustering

\* the cluster ids the returned map gives document id d
AssignedTo(d) == {fn.out[k].cluster_id : k \in {k \in 1..Len(fn.out) : fn.out[k].id = d}}

LocatedDocs == {d \in 1..Len(fn.detections) : fn.detections[d].location # None}

Near(a, b) ==
    LET p == fn.detections[a].location[1]
        q == fn.detections[b].location[1]
        dlat == p.lat - q.lat
        dlng == p.lng - q.lng
    IN  dlat * dlat + dlng * dlng <= 25

CorePoint(d) == Cardinality({e \in LocatedDocs : Near(d, e)}) >= 2

\* the documents linked to d by a chain of near steps
RECURSIVE Chain(_)
Chain(ds) ==
    LET more == {e \in LocatedDocs : \E d \in ds : Near(d, e)}
    IN  IF more \subseteq ds THEN ds ELSE Chain(ds \cup more)

C7_DensityClustering ==
    ClusterPotholesCalled =>
        /\ \A k \in 1..Len(fn.out) : fn.out[k].id \in LocatedDocs
        /\ \A d \in 1..Len(fn.detections) : Cardinality(AssignedTo(d)) <= 1
        /\ \A d \in LocatedDocs, e \in LocatedDocs :
              /\ (CorePoint(d) /\ CorePoint(e) /\ Near(d, e)) =>
                    AssignedTo(d) = AssignedTo(e) /\ AssignedTo(d) # {}
              /\ (~CorePoint(d) /\ CorePoint(e) /\ Near(d, e)) =>
                    \E c \in LocatedDocs :
                        CorePoint(c) /\ Near(d, c) /\ AssignedTo(d) = AssignedTo(c)
                        /\ AssignedTo(d) # {}
              /\ (d # e /\ Near(d, e)) =>
                    AssignedTo(d) = AssignedTo(e) /\ AssignedTo(d) # {}
              /\ (AssignedTo(d) = AssignedTo(e) /\ AssignedTo(d) # {}) => e \in Chain({d})
        /\ \A d \in LocatedDocs :
              (~CorePoint(d) /\ ~\E c \in LocatedDocs : CorePoint(c) /\ Near(d, c)) =>
                  AssignedTo(d) = {}
        /\ \A d \in LocatedDocs :
              (\A e \in LocatedDocs \ {d} : ~Near(d, e)) => AssignedTo(d) = {}

C7_Witness ==
    /\ ClusterPotholesCalled
    /\ Len(fn.detections) = 4
    /\ fn.detections[1].location = Some(Point(20, 0))
    /\ fn.detections[2].location = Some(Point(0, 0))
    /\ fn.detections[3].location = Some(Point(20, 4))
    /\ fn.detections[4].location = Some(Point(3, 4))
    /\ fn.out = <<[id |-> 1, cluster_id |-> "cluster_0"], [id |-> 2, cluster_id |-> "cluster_1"],
                  [id |-> 3, cluster_id |-> "cluster_0"], [id |-> 4, cluster_id |-> "cluster_1"]>>

----------------------------------------------------------------------------
(* C6: in every state reached by create_detection, update_detection_status *)
(* and run_clustering requests, a document without a location has          *)
(* road_type = residential and no area, street_name or cluster_id.         *)

RunAnswered == last'.op = "run_clustering"

InMap(cluster_map, id) == \E k \in 1..Len(cluster_map) : cluster_map[k].id = id

ValueIn(cluster_map, id) ==
    cluster_map[CHOOSE k \in 1..Len(cluster_map) : cluster_map[k].id = id].cluster_id

C6_NoLocationNoEnrichment ==
    \A id \in DOMAIN records :
        records[id].location = None =>
            /\ records[id].road_type = "residential"
            /\ records[id].area = None
            /\ records[id].street_name = None
            /\ records[id].cluster_id = None

\* A clustering run has assigned two located documents while a third, open
\* and created on a highway-geocoding service, has no location
C6_Witness ==
    /\ cfg.reverse_geocoding /\ cfg.gmaps_client
    /\ last.op = "run_clustering" /\ last.code = 200 /\ Len(last.cluster_map) = 2
    /\ \E id \in DOMAIN records :
        /\ records[id].location = None
        /\ records[id].status = "reported"
        /\ records[id].cluster_id = None
    /\ \E id \in DOMAIN records :
        /\ records[id].location # None
        /\ records[id].road_type = "highway"
        /\ records[id].cluster_id # None

----------------------------------------------------------------------------
(* C8: a run_clustering request changes nothing but the cluster_id of      *)
(* documents in its cluster map, which are open and located; when it        *)
(* answers 200 each of them holds the id the map gives it.  Every other     *)
(* document (noise, without a location, repaired) is left as it was, a      *)
(* cluster_id from an earlier run included.                                 *)

C8_WritesOnlyAssigned ==
    [][RunAnswered =>
        LET cluster_map == last'.cluster_map
        IN  /\ DOMAIN records' = DOMAIN records
            /\ \A id \in DOMAIN records :
                IF InMap(cluster_map, id)
                THEN /\ records[id].status \in open_statuses
                     /\ records[id].location # None
                     /\ \/ records'[id] = records[id]
                        \/ records'[id] = [records[id] EXCEPT
                                              !.cluster_id = Some(ValueIn(cluster_map, id))]
                     /\ last'.code = 200 =>
                            records'[id].cluster_id = Some(ValueIn(cluster_map, id))
                ELSE records'[id] = records[id]]_vars

\* A run has written a cluster of two, and a document outside its map
\* still holds the cluster_id of an earlier run
C8_Witness ==
    /\ last.op = "run_clustering" /\ last.code = 200 /\ Len(last.cluster_map) = 2
    /\ \E id \in DOMAIN records :
        /\ ~InMap(last.cluster_map, id)
        /\ records[id].status = "repaired"
        /\ records[id].cluster_id # None

----------------------------------------------------------------------------
(* C9: run_clustering with fewer than two open located documents, or with  *)
(* clustering disabled.                                                     *)

OpenLocated(recs) ==
    {id \in DOMAIN recs : recs[id].status \in open_statuses /\ recs[id].location # None}

\* As claimed: in both cases the run has an empty cluster map, writes nothing
\* and reports no error (an answer of 500 is the store or the configuration
\* failing, not the run)
C9_EmptyRunNoError ==
    [][RunAnswered /\ (Cardinality(OpenLocated(records)) < 2 \/ ~cfg.clustering) =>
        /\ last'.cluster_map = << >>
        /\ records' = records
        /\ last'.code \in {200, 500}]_vars

\* As the code has it: with fewer than two open located documents the run
\* reads the collection, has an empty cluster map, writes nothing and answers
\* 200 (500 if the query raises); with clustering disabled _cluster_potholes
\* returns the empty map for any documents, but run_clustering is answered
\* 503 before any store call, and writes nothing.
C9_EmptyRunOrRejected ==
    /\ [](~cfg.clustering => _cluster_potholes(stream_all(records)) = << >>)
    /\ [](Cardinality(OpenLocated(records)) < 2 =>
            _cluster_potholes(stream_open(records)) = << >>)
    /\ [][RunAnswered =>
            /\ ~cfg.clustering =>
                /\ last'.code = 503
                /\ last'.store_ops = << >>
                /\ last'.cluster_map = << >>
                /\ records' = records
            /\ cfg.clustering /\ Cardinality(OpenLocated(records)) < 2 =>
                /\ last'.cluster_map = << >>
                /\ records' = records
                /\ last'.store_ops = <<"stream">>
                /\ last'.code \in {200, 500}]_vars

\* A run answered 200 with an empty map although two documents share a
\* site: one of them is repaired
C9_Witness ==
    /\ cfg.clustering
    /\ last.op = "run_clustering" /\ last.code = 200 /\ last.cluster_map = << >>
    /\ Cardinality(OpenLocated(records)) = 1
    /\ \E a, b \in DOMAIN records :
        /\ a # b
        /\ records[a].location # None /\ records[a].location = records[b].location
        /\ records[a].status = "repaired"
        /\ records[b].status = "reported"

----------------------------------------------------------------------------
(* C10: when two run_clustering requests on two instances have both been   *)
(* answered 200, the documents that both cluster maps name with different  *)
(* ids all hold the id of the same run.                                     *)

HoldsValueOf(i, id) == records[id].cluster_id = Some(ValueIn(runs[i].cluster_map, id))

Contested ==
    {id \in DOMAIN records :
        /\ \A i \in Instances : InMap(runs[i].cluster_map, id)
        /\ \E i, j \in Instances :
            ValueIn(runs[i].cluster_map, id) # ValueIn(runs[j].cluster_map, id)}

C10_ValuesOfOneRun ==
    (\A i \in Instances : runs[i].pc = "done" /\ runs[i].cluster_map # << >>) =>
        \E i \in Instances : \A id \in Contested : HoldsValueOf(i, id)

----------------------------------------------------------------------------
(* C11: a run_clustering request that fails is answered with an error      *)
(* status (500, or 503 when clustering is disabled), leaves every document  *)
(* in place with every field but cluster_id as it was, and a complete run   *)
(* on the collection it leaves gives the collection that a complete run     *)
(* instead of the failed one would have given.                              *)

\* The collection after a run_clustering request in which no call raises
after_complete_run(recs) ==
    commit_from(recs, batches_of(_cluster_potholes(stream_open(recs))), 1, 0).records

C11_FailedRunRetriable ==
    [][RunAnswered /\ last'.code # 200 =>
        /\ last'.code \in {500, 503}
        /\ DOMAIN records' = DOMAIN records
        /\ \A id \in DOMAIN records :
            [records'[id] EXCEPT !.cluster_id = None] = [records[id] EXCEPT !.cluster_id = None]
        /\ after_complete_run(records') = after_complete_run(records)]_vars

\* A run has failed in its second commit: of the three documents of its map
\* the first two hold the new cluster_id and the third does not
C11_Witness ==
    /\ last.op = "run_clustering" /\ last.code = 500
    /\ last.store_ops = <<"stream", "commit", "commit">>
    /\ Len(last.cluster_map) = 3
    /\ records[last.cluster_map[1].id].cluster_id = Some(last.cluster_map[1].cluster_id)
    /\ records[last.cluster_map[3].id].cluster_id = None

----------------------------------------------------------------------------
(* C12: get_priority_queue.                                                *)

QueueAnswered == last'.op = "get_priority_queue" /\ last'.code = 200

\* The queue's entries are documents of the collection, each once, with the
\* status and priority_score the document has
QueueOfDocuments(queue) ==
    \A k \in 1..Len(queue) :
        /\ queue[k].id \in DOMAIN records
        /\ "status" \in DOMAIN records[queue[k].id]
        /\ "priority_score" \in DOMAIN records[queue[k].id]
        /\ queue[k].status = records[queue[k].id].status
        /\ queue[k].priority_score = records[queue[k].id].priority_score
        /\ \A j \in 1..Len(queue) : queue[j].id = queue[k].id => j = k

\* priority_score never rises along the queue (a null score counts as lowest)
NonIncreasing(queue) ==
    \A k \in 1..Len(queue) - 1 :
        \/ queue[k + 1].priority_score = None
        \/ /\ queue[k].priority_score # None
           /\ queue[k].priority_score[1] >= queue[k + 1].priority_score[1]

\* No document with one of the statuses wanted that is not in the queue has
\* a higher priority_score than one that is
NoneBetterOmitted(queue, wanted) ==
    \A id \in DOMAIN records :
        /\ "status" \in DOMAIN records[id] /\ records[id].status \in wanted
        /\ "priority_score" \in DOMAIN records[id] /\ records[id].priority_score # None
        /\ \A k \in 1..Len(queue) : queue[k].id # id
        => \A k \in 1..Len(queue) :
               /\ queue[k].priority_score # None
               /\ queue[k].priority_score[1] >= records[id].priority_score[1]

AllStatuses == {Some(s) : s \in valid_statuses}

\* As claimed: a status filter that is given selects exactly that status, no
\* filter selects what is not repaired
C12_QueueByGivenStatus ==
    [][QueueAnswered =>
        LET queue == last'.queue
            wanted == IF last'.status # None THEN {last'.status}
                      ELSE AllStatuses \ {Some("repaired")}
        IN  /\ QueueOfDocuments(queue)
            /\ \A k \in 1..Len(queue) : queue[k].status \in wanted
            /\ NonIncreasing(queue)
            /\ last'.limit \in 1..LIMIT_MAX /\ Len(queue) <= last'.limit
            /\ NoneBetterOmitted(queue, wanted)]_vars

\* As the code has it: a status filter that is not the empty string selects
\* exactly that status; no filter, or an empty one, selects the documents
\* that are reported, verified or scheduled.  The queue is ordered by
\* priority_score, highest first, holds at most limit entries (1..500), and
\* no selected document left out has a higher score than one returned.
C12_QueueByNonEmptyStatus ==
    [][QueueAnswered =>
        LET queue == last'.queue
            wanted == IF last'.status # None /\ last'.status # Some("")
                      THEN {last'.status}
                      ELSE AllStatuses \ {Some("repaired")}
        IN  /\ QueueOfDocuments(queue)
            /\ \A k \in 1..Len(queue) : queue[k].status \in wanted
            /\ NonIncreasing(queue)
            /\ last'.limit \in 1..LIMIT_MAX /\ Len(queue) <= last'.limit
            /\ NoneBetterOmitted(queue, wanted)]_vars

\* A queue of one for status reported, cut by the limit: the entry has score
\* 90 and a reported document with score 30 is left out
C12_Witness ==
    /\ last.op = "get_priority_queue" /\ last.code = 200
    /\ last.status = Some("reported") /\ last.limit = 1
    /\ Len(last.queue) = 1 /\ last.queue[1].priority_score = Some(90)
    /\ \E id \in DOMAIN records :
        /\ id # last.queue[1].id
        /\ "status" \in DOMAIN records[id] /\ records[id].status = Some("reported")
        /\ "priority_score" \in DOMAIN records[id] /\ records[id].priority_score = Some(30)

----------------------------------------------------------------------------
(* C13: an answer of get_area_analytics has one entry per area, a document *)
(* with a null or missing area is counted under "Unknown", every document   *)
(* that has data is counted in exactly one entry, so the entries'           *)
(* total_potholes add up to the number of documents scanned, and in each    *)
(* entry total_potholes = repaired + pending.                               *)

AreaAnswered == last'.op = "get_area_analytics" /\ last'.code = 200

RECURSIVE TotalOf(_)
TotalOf(by_area) ==
    IF by_area = << >> THEN 0 ELSE Head(by_area).total_potholes + TotalOf(Tail(by_area))

NoArea(data) == "area" \notin DOMAIN data \/ data.area = None

----------------------------------------------------------------------------
(* C14: an answer of get_statistics for a window of N days counts in       *)
(* total_potholes only documents whose createdAt lies within the last N     *)
(* days (none that is older, none without a usable createdAt), has          *)
(* repaired + pending = total_potholes, and has repair_rate =               *)
(* repaired / total * 100 to one decimal, or 0 when the total is 0.         *)

StatsAnswered == last'.op = "get_statistics" /\ last'.code = 200

\* The documents with a createdAt that is a time within the last N days
InWindow(days) ==
    {id \in DOMAIN records :
        /\ "createdAt" \in DOMAIN records[id]
        /\ records[id].createdAt # None
        /\ records[id].createdAt[1].kind \in {"iso_utc", "timestamp"}
        /\ records[id].createdAt[1].day >= now - days}

C14_WindowedStatistics ==
    [][StatsAnswered =>
        LET stats == last'.stats[1]
        IN  /\ stats.total_potholes <= Cardinality(InWindow(last'.period_days))
            /\ stats.repaired + stats.pending = stats.total_potholes
            /\ stats.total_potholes = 0 => stats.repair_rate = 0
            /\ stats.total_potholes > 0 =>
                   /\ 2 * (stats.repair_rate * stats.total_potholes - 1000 * stats.repaired)
                          <= stats.total_potholes
                   /\ 2 * (1000 * stats.repaired - stats.repair_rate * stats.total_potholes)
                          <= stats.total_potholes]_vars

----------------------------------------------------------------------------
(* C15: whatever documents the collection holds (fields missing, null or   *)
(* malformed), each of the three views, asked on a configured service with *)
(* analytics enabled and a store that answers, completes with 200.          *)

C15_ViewsTolerateBadFields ==
    cfg.gcp /\ cfg.analytics =>
        /\ ENABLED (GetPriorityQueue /\ last'.code = 200)
        /\ ENABLED (GetAreaAnalytics /\ last'.code = 200)
        /\ ENABLED (GetStatistics /\ last'.code = 200)

----------------------------------------------------------------------------
(* C16: a create_detection request with exactly one of lat and lng, made   *)
(* to a configured service in which no call fails, is answered with a       *)
(* validation error (400 or 422) and uploads no blob and stores no          *)
(* document.                                                                *)

CreateAnswered == last'.op = "create_detection"

OneCoordinate == {<<Some(0), None>>, <<None, Some(0)>>}

C16_HalfPairRejected ==
    [][\A uid \in FreshIds(1..MaxLifeRecords), pair \in OneCoordinate, dt \in 0..1 :
            (/\ cfg = AllOn
             /\ create_detection(uid, pair[1], pair[2], Detection(2, 80), GeoEmpty, "none", dt))
            => (/\ last'.code \in {400, 422}
                /\ records' = records
                /\ blobs' = blobs)]_vars

----------------------------------------------------------------------------
(* C17: a create_detection request that is not answered 201 is answered    *)
(* with an error status and leaves the collection as it was, with no        *)
(* document for the request; when the clients or the bucket are not         *)
(* configured, or the model is not loaded, the request is answered with an *)
(* error status (413 if the upload is too large) and no blob is stored      *)
(* either.                                                                  *)

C17_FailedCreateLeavesNoRecord ==
    [][CreateAnswered =>
        /\ last'.code # 201 =>
            /\ last'.code \in {413, 500, 503}
            /\ records' = records
            /\ last'.id # None => last'.id[1] \notin DOMAIN records'
        /\ ~cfg.gcp \/ ~cfg.model =>
            /\ last'.code \in {413, 500, 503}
            /\ records' = records
            /\ blobs' = blobs]_vars

\* The write of the document has failed after the upload: the request is
\* answered 500, its blob is stored and it has no document
C17_Witness ==
    /\ last.op = "create_detection" /\ last.code = 500
    /\ last.store_ops = <<"set">>
    /\ last.id # None
    /\ last.id[1] \in blobs
    /\ last.id[1] \notin DOMAIN records

----------------------------------------------------------------------------
(* C19: every document create_detection stored has                         *)
(* expiresAt = createdAt + DATA_RETENTION_DAYS.                             *)

C19_ExpiryFromCreation ==
    \A id \in DOMAIN records :
        records[id].expiresAt = records[id].createdAt + DATA_RETENTION_DAYS

----------------------------------------------------------------------------
(* C20: delete_detection on an existing id removes the document and         *)
(* attempts to delete its blob, answering 200 also when the blob deletion   *)
(* raises; on an id without a document it answers 404 and changes neither   *)
(* the collection nor the blobs.  (An unconfigured service, or a raising    *)
(* get or delete of the document, ends 500 with nothing changed.)           *)

DeleteAnswered == last'.op = "delete_detection"

C20_DeleteDetection ==
    [][DeleteAnswered =>
        LET id == last'.id[1]
        IN  /\ last'.code \in {200, 404, 500}
            /\ last'.code = 200 =>
                /\ id \in DOMAIN records
                /\ DOMAIN records' = DOMAIN records \ {id}
                /\ \A other \in DOMAIN records' : records'[other] = records[other]
                /\ last'.store_ops = <<"get", "delete", "blob.delete">>
                /\ blobs' \in {blobs, blobs \ {records[id].storagePath}}
            /\ last'.code = 404 =>
                /\ id \notin DOMAIN records
                /\ records' = records /\ blobs' = blobs
            /\ last'.code = 500 =>
                /\ records' = records /\ blobs' = blobs
                /\ ~cfg.gcp \/ last'.store_ops \in {<<"get">>, <<"get", "delete">>}
            /\ cfg.gcp /\ id \notin DOMAIN records => last'.code \in {404, 500}
            /\ cfg.gcp /\ id \notin DOMAIN records /\ last'.code = 500 =>
                   last'.store_ops = <<"get">>]_vars

\* A deletion answered 200 whose blob deletion raised: the document is
\* gone, its blob is still stored
C20_Witness ==
    /\ last.op = "delete_detection" /\ last.code = 200
    /\ last.id[1] \notin DOMAIN records
    /\ last.id[1] \in blobs

----------------------------------------------------------------------------
(* C18: a request to get_priority_queue, get_area_analytics or              *)
(* get_statistics, whatever its answer, leaves the collection as it was:    *)
(* the same documents with the same fields, and the same blobs.             *)

ViewAnswered ==
    last'.op \in {"get_priority_queue", "get_area_analytics", "get_statistics"}

C18_ViewsReadOnly ==
    [][ViewAnswered => records' = records /\ blobs' = blobs]_vars

\* A view has failed over a collection of three documents, one of them
\* without data
C18_Witness ==
    /\ last.op = "get_area_analytics" /\ last.code = 500
    /\ last.store_ops = <<"stream">>
    /\ Cardinality(DOMAIN records) = 3
    /\ \E id \in DOMAIN records : records[id] = << >>

----------------------------------------------------------------------------
(* C21: an update_detection_status answered 200 changes nothing but status *)
(* and updatedAt of the document it names, and leaves updatedAt set; none   *)
(* of create_detection, update_detection_status and run_clustering changes  *)
(* id, createdAt, expiresAt, location, storagePath, numDetections,          *)
(* severity, priority_score, repair_urgency, area, street_name or road_type *)
(* of a stored document.                                                    *)

\* The fields of a document that are fixed when it is created
fixed_at_creation(record) ==
    [id |-> record.id, createdAt |-> record.createdAt, expiresAt |-> record.expiresAt,
     location |-> record.location, storagePath |-> record.storagePath,
     numDetections |-> record.numDetections, severity |-> record.severity,
     priority_score |-> record.priority_score, repair_urgency |-> record.repair_urgency,
     area |-> record.area, street_name |-> record.street_name,
     road_type |-> record.road_type]

C21_UpdateFrame ==
    /\ [][UpdateAnswered /\ last'.code = 200 =>
            LET id == last'.id[1]
            IN  /\ id \in DOMAIN records
                /\ DOMAIN records' = DOMAIN records
                /\ records'[id].updatedAt # None
                /\ records'[id] = [records[id] EXCEPT !.status = last'.status[1],
                                                      !.updatedAt = records'[id].updatedAt]
                /\ \A other \in DOMAIN records \ {id} : records'[other] = records[other]]_vars
    /\ [][\A id \in DOMAIN records :
            /\ id \in DOMAIN records'
            /\ fixed_at_creation(records'[id]) = fixed_at_creation(records[id])]_vars

\* A document on a highway that a clustering run gave a cluster_id has been
\* set to repaired: it keeps the urgency, severity and cluster_id it had
C21_Witness ==
    /\ last.op = "update_detection_status" /\ last.code = 200
    /\ last.status = Some("repaired")
    /\ Cardinality(DOMAIN records) >= 2
    /\ LET record == records[last.id[1]]
       IN  /\ record.status = "repaired"
           /\ record.updatedAt # None
           /\ record.cluster_id # None
           /\ record.road_type = "highway"
           /\ record.repair_urgency = "urgent"
           /\ record.severity = "medium"

----------------------------------------------------------------------------
(* C22: run_clustering commits the assignments of a cluster map of any size
   in write batches of between 1 and BATCH_LIMIT updates (500 in the source):
   no batch is empty or over the limit, the batches in the order committed
   hold every assignment of the map exactly once, an empty map commits
   nothing, and a map whose size is a multiple of the limit commits exactly
   size / limit batches. *)

RECURSIVE flatten(_)
flatten(batches) ==
    IF batches = << >> THEN << >> ELSE Head(batches) \o flatten(Tail(batches))

C22_BatchesWithinLimit ==
    (fn.op = "batches_of" /\ fn.called) =>
        LET n == Len(fn.cluster_map)
            committed == fn.out
        IN  /\ \A b \in 1..Len(committed) :
                   Len(committed[b]) >= 1 /\ Len(committed[b]) <= BATCH_LIMIT
            /\ flatten(committed) = fn.cluster_map
            /\ Len(committed) = (n + BATCH_LIMIT - 1) \div BATCH_LIMIT
            /\ (n = 0 => committed = << >>)
            /\ (n % BATCH_LIMIT = 0 => Len(committed) = n \div BATCH_LIMIT)

\* A map of twice the limit was committed in two full batches
C22_Witness ==
    /\ fn.op = "batches_of" /\ fn.called
    /\ Len(fn.cluster_map) = 2 * BATCH_LIMIT
    /\ Len(fn.out) = 2
    /\ Len(fn.out[2]) = BATCH_LIMIT

(* C23: when delete_detection runs between the store calls of an
   update_detection_status or of a clustering run on another instance, the
   deleted document is not written anew.  An id that has been drawn and is
   not in the collection is not in it after any step; a status write that
   lands on a document that is gone answers 500 and writes nothing; a batch
   commit that names a document that is gone answers 500 and writes nothing. *)

\* Instance i takes the next store call of its request in this step
steps(i) == runs'[i] # runs[i]

C23_DeletedStaysDeleted ==
    /\ [][\A id \in 1..now : id \notin DOMAIN records => id \notin DOMAIN records']_vars
    /\ [][\A i \in Instances :
            (/\ runs[i].pc = "updating"
             /\ runs[i].id \notin DOMAIN records
             /\ steps(i))
            => (/\ last'.op = "update_detection_status"
                /\ last'.code = 500
                /\ last'.id = Some(runs[i].id)
                /\ records' = records)]_vars
    /\ [][\A i \in Instances :
            (/\ runs[i].pc = "writing"
             /\ ~commit_possible(records, batches_of(runs[i].cluster_map)[runs[i].batch])
             /\ steps(i))
            => (/\ last'.op = "run_clustering"
                /\ last'.code = 500
                /\ runs'[i].pc = "failed"
                /\ records' = records)]_vars

\* A status write landed on a deleted document and failed, after a batch
\* commit of the other instance had failed on another deleted document
C23_Witness ==
    /\ last.op = "update_detection_status"
    /\ last.code = 500
    /\ last.store_ops = <<"get", "update">>
    /\ last.id[1] \in 1..now
    /\ last.id[1] \notin DOMAIN records
    /\ \E i \in Instances :
           /\ runs[i].pc = "failed"
           /\ \E k \in 1..Len(runs[i].cluster_map) :
                  /\ runs[i].cluster_map[k].id \notin DOMAIN records
                  /\ runs[i].cluster_map[k].id # last.id[1]
=============================================================================
